---------------------------- MODULE Spec2Model ----------------------------
(***************************************************************************)
(* A model of xcom: the recycle-bin manager (src/src/bin/recyclebin.rs)    *)
(* and the bulk-transfer engine (src/src/lib.rs, src/src/bin/xcopy.rs).    *)
(*                                                                         *)
(* Text is modelled as a sequence of one-character strings, so that        *)
(* trimming, splitting, lower-casing and number parsing are computed the   *)
(* way the code computes them.                                             *)
(*                                                                         *)
(* Three specifications share the module:                                  *)
(*   SpecParse  parse_indices applied to every token of a bounded alphabet *)
(*   Spec       the interactive session over a recycle bin that other      *)
(*              processes may change                                       *)
(*   SpecXfer   process_sources and win32_shell_operation                  *)
(*   SpecEnum   list_recycle_bin, one shell call at a time, with the       *)
(*              native handles it holds                                    *)
(***************************************************************************)
EXTENDS Integers, Sequences, FiniteSets, TLC

VARIABLES
    \* ---- parse_indices harness
    input,        \* the selection token handed to parse_indices
    count,        \* the snapshot length handed to parse_indices
    indices,      \* the Vec<usize> it returned
    ppc,          \* "call" before the call, "ret" after it
    \* ---- interactive session
    store,        \* the recycle bin itself: the entries the shell enumerates
    items,        \* interactive_mode's local `items`: the snapshot
    state,        \* "Start", "AwaitingCommand" or "Terminated"
    exit,         \* how interactive_mode returned: "none", "ok" or "err"
    branch,       \* what the last step was: a branch of the loop body,
                  \* "start", or "external" (another process changed the bin)
    cmd,          \* the last step's command line, trimmed and lower-cased
    selected,     \* the last step's `indices` (restore and purge)
    calls,        \* the capability calls the last step made, in order
    report,       \* the lines the last search printed: <<position, name>>
    \* ---- bulk transfer
    args,         \* xcopy's command line after the program name
    sources,      \* process_sources' argument: the source tokens
    dest,         \* process_sources' argument: the destination
    operation,    \* process_sources' argument: "COPY" or "MOVE"
    fs,           \* the directories read_dir can list
    tok,          \* the index of the next source token to expand
    all_paths,    \* the expanded path list
    shellCalls,   \* every invocation of win32_shell_operation
    shellRet,     \* what SHFileOperationW returned: abort flag and code
    outcome,      \* win32_shell_operation's Result<bool, String>
    log,          \* the audit records written, in order
    logCalls,     \* the records logs() was called with, written or not
    result,       \* process_sources' Result<(), String>
    exitCode,     \* the exit code of the process, -1 while it runs
    xpc,          \* the position inside main / process_sources
    \* ---- list_recycle_bin
    epc,          \* the position inside list_recycle_bin
    fetched,      \* how many entries enumerator.Next has yielded
    held,         \* the id lists allocated by the shell and not yet freed
    eitems,       \* list_recycle_bin's local `items`
    eresult       \* what list_recycle_bin returned: "none", "Ok" or "Err"

parseVars == <<input, count, indices, ppc>>
sessionVars == <<store, items, state, exit, branch, cmd, selected,
                 calls, report>>
xferVars == <<args, sources, dest, operation, fs, tok, all_paths, shellCalls,
              shellRet, outcome, log, logCalls, result, exitCode, xpc>>
enumVars == <<epc, fetched, held, eitems, eresult>>
vars == <<parseVars, sessionVars, xferVars, enumVars>>

-----------------------------------------------------------------------------
(* Bounds *)

MaxTokLen == 4
MaxCount == 3
MaxStore == 3
MaxSources == 2
MaxDirLen == 2

-----------------------------------------------------------------------------
(* Text helpers: what the standard library does to &str *)

Range(s) == { s[i] : i \in 1..Len(s) }

Contains(s, c) == c \in Range(s)

\* char::is_whitespace, restricted to the characters the model types
WhiteSpace == {" ", "\n"}

RECURSIVE TrimStart(_)
TrimStart(s) ==
    IF s # <<>> /\ Head(s) \in WhiteSpace THEN TrimStart(Tail(s)) ELSE s

RECURSIVE TrimEnd(_)
TrimEnd(s) ==
    IF s # <<>> /\ s[Len(s)] \in WhiteSpace
    THEN TrimEnd(SubSeq(s, 1, Len(s) - 1))
    ELSE s

\* str::trim
trim(s) == TrimEnd(TrimStart(s))

\* str::split(sep).collect(): always at least one part, empty parts kept
RECURSIVE SplitFrom(_, _, _, _)
SplitFrom(s, sep, cur, acc) ==
    IF s = <<>> THEN Append(acc, cur)
    ELSE IF Head(s) = sep
         THEN SplitFrom(Tail(s), sep, <<>>, Append(acc, cur))
         ELSE SplitFrom(Tail(s), sep, Append(cur, Head(s)), acc)

split(s, sep) == SplitFrom(s, sep, <<>>, <<>>)

DigitChars == {"0", "1", "2", "3", "4", "5", "6", "7", "8", "9"}

DigitValue(c) ==
    CASE c = "0" -> 0 [] c = "1" -> 1 [] c = "2" -> 2 [] c = "3" -> 3
      [] c = "4" -> 4 [] c = "5" -> 5 [] c = "6" -> 6 [] c = "7" -> 7
      [] c = "8" -> 8 [] c = "9" -> 9

RECURSIVE DigitsValue(_, _)
DigitsValue(s, acc) ==
    IF s = <<>> THEN acc ELSE DigitsValue(Tail(s), 10 * acc + DigitValue(Head(s)))

\* str::parse::<usize>(): an optional leading '+', then one or more decimal
\* digits and nothing else (no sign '-', no blanks).  The tokens of the model
\* are far shorter than the 20 digits at which usize overflows.
parse_usize(s) ==
    LET body == IF s # <<>> /\ Head(s) = "+" THEN Tail(s) ELSE s
    IN  IF body # <<>> /\ Range(body) \subseteq DigitChars
        THEN [ok |-> TRUE, val |-> DigitsValue(body, 0)]
        ELSE [ok |-> FALSE, val |-> 0]

\* slice::sort on Vec<usize> (insertion into an ascending list)
RECURSIVE InsertSorted(_, _)
InsertSorted(x, s) ==
    IF s = <<>> THEN <<x>>
    ELSE IF x <= Head(s) THEN <<x>> \o s
         ELSE <<Head(s)>> \o InsertSorted(x, Tail(s))

RECURSIVE sort(_)
sort(s) == IF s = <<>> THEN <<>> ELSE InsertSorted(Head(s), sort(Tail(s)))

\* Vec::dedup: drops consecutive repeated elements
RECURSIVE dedup(_)
dedup(s) ==
    IF Len(s) <= 1 THEN s
    ELSE IF s[1] = s[2] THEN dedup(Tail(s))
         ELSE <<s[1]>> \o dedup(Tail(s))

-----------------------------------------------------------------------------
(* parse_indices, src/src/bin/recyclebin.rs:197-236 *)

\* the body of each loop: push num - 1 when 0 < num <= count
push_if_valid(acc, num, n) ==
    IF num > 0 /\ num <= n THEN Append(acc, num - 1) ELSE acc

\* comma-separated: n1,n2,n3
RECURSIVE comma_loop(_, _, _)
comma_loop(parts, n, acc) ==
    IF parts = <<>> THEN acc
    ELSE LET num == parse_usize(trim(Head(parts)))
         IN  comma_loop(Tail(parts), n,
                        IF num.ok THEN push_if_valid(acc, num.val, n) ELSE acc)

comma_branch_stop_on_bad(inp, n) ==
    LET parts == split(inp, ",")
        good == { i \in 1..Len(parts) :
                    \A j \in 1..i : parse_usize(trim(parts[j])).ok }
    IN  comma_loop(SubSeq(parts, 1, Cardinality(good)), n, <<>>)

comma_branch(inp, n) == comma_loop(split(inp, ","), n, <<>>)

\* for i in start..=end
RECURSIVE range_loop(_, _, _, _)
range_loop(i, end, n, acc) ==
    IF i > end THEN acc
    ELSE range_loop(i + 1, end, n, push_if_valid(acc, i, n))

range_branch_swapping(inp, n) ==
    LET parts == split(inp, "-")
    IN  IF Len(parts) = 2
        THEN LET start == parse_usize(trim(parts[1]))
                 end == parse_usize(trim(parts[2]))
             IN  IF start.ok /\ end.ok
                 THEN IF start.val <= end.val
                      THEN range_loop(start.val, end.val, n, <<>>)
                      ELSE range_loop(end.val, start.val, n, <<>>)
                 ELSE <<>>
        ELSE <<>>

\* range: n1-nX
range_branch(inp, n) ==
    LET parts == split(inp, "-")
    IN  IF Len(parts) = 2
        THEN LET start == parse_usize(trim(parts[1]))
                 end == parse_usize(trim(parts[2]))
             IN  IF start.ok /\ end.ok
                 THEN range_loop(start.val, end.val, n, <<>>)
                 ELSE <<>>
        ELSE <<>>

single_branch_one_based(inp, n) ==
    LET num == parse_usize(inp)
    IN  IF num.ok /\ num.val > 0 /\ num.val <= n THEN <<num.val>> ELSE <<>>

\* single number (the token is not trimmed here)
single_branch(inp, n) ==
    LET num == parse_usize(inp)
    IN  IF num.ok THEN push_if_valid(<<>>, num.val, n) ELSE <<>>

collect_indices_range_first(inp, n) ==
    IF Contains(inp, "-") THEN range_branch(inp, n)
    ELSE IF Contains(inp, ",") THEN comma_branch(inp, n)
    ELSE single_branch(inp, n)

\* the three branches, in the code's priority order, before sort and dedup
collect_indices(inp, n) ==
    IF Contains(inp, ",") THEN comma_branch(inp, n)
    ELSE IF Contains(inp, "-") THEN range_branch(inp, n)
    ELSE single_branch(inp, n)

parse_indices_unsorted(inp, n) == collect_indices(inp, n)

parse_indices(inp, n) == dedup(sort(collect_indices(inp, n)))

-----------------------------------------------------------------------------
(* SpecParse: parse_indices applied to every token over TokChars *)

TokChars == {"0", "1", "2", "3", ",", "-", " ", "+", "x"}

Tokens == UNION { [1..n -> TokChars] : n \in 0..MaxTokLen }

SessionIdle ==
    /\ store = <<>>
    /\ items = <<>>
    /\ state = "Idle"
    /\ exit = "none"
    /\ branch = "none"
    /\ cmd = <<>>
    /\ selected = <<>>
    /\ calls = <<>>
    /\ report = <<>>

XferIdle ==
    /\ args = <<>>
    /\ sources = <<>>
    /\ dest = <<>>
    /\ operation = "none"
    /\ exitCode = -1
    /\ fs = <<>>
    /\ tok = 0
    /\ all_paths = <<>>
    /\ shellCalls = <<>>
    /\ shellRet = <<>>
    /\ outcome = <<>>
    /\ log = <<>>
    /\ logCalls = <<>>
    /\ result = <<>>
    /\ xpc = "idle"

EnumIdle ==
    /\ epc = "idle"
    /\ fetched = 0
    /\ held = {}
    /\ eitems = <<>>
    /\ eresult = "none"

ParseIdle ==
    /\ input = <<>>
    /\ count = 0
    /\ indices = <<>>
    /\ ppc = "idle"

InitParse ==
    /\ input \in Tokens
    /\ count \in 0..MaxCount
    /\ indices = <<>>
    /\ ppc = "call"
    /\ SessionIdle
    /\ XferIdle
    /\ EnumIdle

CallParseIndices ==
    /\ ppc = "call"
    /\ indices' = parse_indices(input, count)
    /\ ppc' = "ret"
    /\ UNCHANGED <<input, count, sessionVars, xferVars, enumVars>>

NextParse == CallParseIndices

SpecParse == InitParse /\ [][NextParse]_vars

-----------------------------------------------------------------------------
(* Properties of parse_indices, checked under SpecParse *)

\* what the claims mean by the text of an unsigned integer, and its value
IsDecimal(s) == s # <<>> /\ \A i \in 1..Len(s) : s[i] \in DigitChars

RECURSIVE Pow10(_)
Pow10(e) == IF e = 0 THEN 1 ELSE 10 * Pow10(e - 1)

RECURSIVE DecimalValue(_)
DecimalValue(s) ==
    IF s = <<>> THEN 0
    ELSE DigitValue(Head(s)) * Pow10(Len(s) - 1) + DecimalValue(Tail(s))

\* text that parses as an unsigned integer: digits, with an optional '+'
IsUnsignedText(s) ==
    \/ IsDecimal(s)
    \/ Len(s) >= 2 /\ s[1] = "+" /\ IsDecimal(Tail(s))

UnsignedValue(s) == IF s[1] = "+" THEN DecimalValue(Tail(s)) ELSE DecimalValue(s)

StrictlyAscending(s) == \A i \in 1..(Len(s) - 1) : s[i] < s[i + 1]

\* C3: for every token and every count, parse_indices returns a list that is
\* strictly ascending (sorted, no duplicates) and whose every member i
\* satisfies 0 <= i < count.
C3_SortedDedupInRange ==
    ppc = "ret" =>
        /\ StrictlyAscending(indices)
        /\ \A i \in 1..Len(indices) : 0 <= indices[i] /\ indices[i] < count

\* a call in which sorting or deduplicating changed what the branch collected
C3_Witness ==
    /\ ppc = "ret"
    /\ Len(indices) >= 2
    /\ collect_indices(input, count) # indices

\* C4: for a token that is the decimal form of one unsigned integer k,
\* parse_indices returns exactly <<k-1>> when 1 <= k <= count and the empty
\* list otherwise (k = 0 and k = count + 1 included).
C4_SingleNumber ==
    (ppc = "ret" /\ IsDecimal(input)) =>
        LET k == DecimalValue(input)
        IN  indices = IF 1 <= k /\ k <= count THEN <<k - 1>> ELSE <<>>

\* the largest accepted number: k = count selects the last item
C4_Witness ==
    /\ ppc = "ret"
    /\ IsDecimal(input)
    /\ count >= 2
    /\ DecimalValue(input) = count
    /\ indices = <<count - 1>>

\* the positions of '-' that cut a comma-free token into two unsigned integers
RangeCuts(s) ==
    { i \in 1..Len(s) :
        /\ s[i] = "-"
        /\ IsUnsignedText(trim(SubSeq(s, 1, i - 1)))
        /\ IsUnsignedText(trim(SubSeq(s, i + 1, Len(s)))) }

RangeStart(s) ==
    LET i == CHOOSE c \in RangeCuts(s) : TRUE
    IN  UnsignedValue(trim(SubSeq(s, 1, i - 1)))

RangeEnd(s) ==
    LET i == CHOOSE c \in RangeCuts(s) : TRUE
    IN  UnsignedValue(trim(SubSeq(s, i + 1, Len(s))))

\* C5: for a comma-free token "a-b" of two unsigned integers, parse_indices
\* returns exactly { i-1 : a <= i <= b and 1 <= i <= count }, which is empty
\* when a > b (no swap); a token with '-' whose parts are not exactly two
\* unsigned integers yields the empty list.
C5_Range ==
    (ppc = "ret" /\ ~Contains(input, ",") /\ Contains(input, "-")) =>
        IF RangeCuts(input) # {}
        THEN /\ StrictlyAscending(indices)
             /\ Range(indices) =
                   { i - 1 : i \in { j \in RangeStart(input)..RangeEnd(input) :
                                       1 <= j /\ j <= count } }
        ELSE indices = <<>>

\* a reversed range whose bounds both name items: nothing is selected
C5_Witness ==
    /\ ppc = "ret"
    /\ ~Contains(input, ",")
    /\ RangeCuts(input) # {}
    /\ RangeStart(input) > RangeEnd(input)
    /\ 1 <= RangeEnd(input)
    /\ RangeStart(input) <= count
    /\ indices = <<>>

\* the comma-separated parts that name an item of a snapshot of length n
ValidParts(s, n) ==
    LET parts == split(s, ",")
    IN  { i \in 1..Len(parts) :
            /\ IsUnsignedText(trim(parts[i]))
            /\ 1 <= UnsignedValue(trim(parts[i]))
            /\ UnsignedValue(trim(parts[i])) <= n }

\* C6: for a token containing ',', parse_indices returns exactly the set
\* { k-1 : k is a comma-separated part that, trimmed, parses as an unsigned
\* integer with 1 <= k <= count }: bad parts are skipped without affecting
\* the others, and repeated values appear once.
C6_CommaList ==
    (ppc = "ret" /\ Contains(input, ",")) =>
        LET parts == split(input, ",")
        IN  /\ StrictlyAscending(indices)
            /\ Range(indices) =
                  { UnsignedValue(trim(parts[i])) - 1 : i \in ValidParts(input, count) }

\* a part that does not parse stands before a part that names an item
C6_Witness ==
    /\ ppc = "ret"
    /\ Contains(input, ",")
    /\ LET parts == split(input, ",")
       IN  \E i, j \in 1..Len(parts) :
              /\ i < j
              /\ ~IsUnsignedText(trim(parts[i]))
              /\ j \in ValidParts(input, count)
    /\ indices # <<>>

\* C20, as claimed: a token containing both ',' and '-' yields the empty
\* list for every count.
C20_MixedSyntaxYieldsEmpty ==
    (ppc = "ret" /\ Contains(input, ",") /\ Contains(input, "-")) =>
        indices = <<>>

\* the comma-separated parts without '-' that name an item
PlainParts(s, n) ==
    { i \in ValidParts(s, n) : ~Contains(split(s, ",")[i], "-") }

\* C20, amended: a token containing both ',' and '-' is read as a comma
\* list; a part containing '-' is skipped like any part that is no unsigned
\* integer, the other parts select as usual, and the result is empty exactly
\* when no part is an unsigned integer within 1..count.
C20_MixedSyntaxKeepsPlainParts ==
    (ppc = "ret" /\ Contains(input, ",") /\ Contains(input, "-")) =>
        LET parts == split(input, ",")
        IN  /\ StrictlyAscending(indices)
            /\ Range(indices) =
                  { UnsignedValue(trim(parts[i])) - 1 : i \in PlainParts(input, count) }
            /\ indices = <<>> <=> PlainParts(input, count) = {}

\* a part with '-' stands before a number that names an item, and that item
\* alone is selected
C20_Witness ==
    /\ ppc = "ret"
    /\ LET parts == split(input, ",")
       IN  /\ Len(parts) = 2
           /\ Contains(parts[1], "-")
           /\ Len(parts[1]) >= 2
           /\ PlainParts(input, count) = {2}
           /\ indices = <<UnsignedValue(trim(parts[2])) - 1>>

-----------------------------------------------------------------------------
(* The recycle bin and its enumeration, src/src/bin/recyclebin.rs:54-195 *)

\* The entries the bin can hold.  Each is a distinct deleted file; its
\* parsing name stands for its identity.
Entries == 1..MaxStore

EntryName(e) ==
    CASE e = 1 -> <<"A", "b">>
      [] e = 2 -> <<"b">>
      [] e = 3 -> <<"B", "a">>
      [] OTHER -> <<"a">>

\* GetDisplayNameOf(SHGDN_NORMAL) and GetDisplayNameOf(SHGDN_FORPARSING)
\* succeed for every entry of Entries
DisplayNameOk(e) == e \in Entries
ParsingNameOk(e) == e \in Entries

\* the sequences of distinct entries
Stores ==
    { st \in UNION { [1..n -> Entries] : n \in 0..MaxStore } :
        \A i, j \in 1..Len(st) : i # j => st[i] # st[j] }

\* list_recycle_bin when the shell calls succeed: one RecycleBinItem for
\* each entry whose two names resolve, in the order the shell yields them
RECURSIVE enum_loop(_, _)
enum_loop(st, acc) ==
    IF st = <<>> THEN acc
    ELSE enum_loop(Tail(st),
            IF DisplayNameOk(Head(st)) /\ ParsingNameOk(Head(st))
            THEN Append(acc, [name |-> EntryName(Head(st)),
                              original_path |-> Head(st),
                              size |-> 0])
            ELSE acc)

list_recycle_bin(st) == enum_loop(st, <<>>)

\* restore_item and delete_item_permanently print a line and return Ok(());
\* neither touches the bin
restore_item(item) == "Ok"

delete_item_permanently(item) == "Ok"

\* SHEmptyRecycleBinW succeeded: the bin holds nothing
empty_recycle_bin(st) == <<>>

-----------------------------------------------------------------------------
(* interactive_mode, src/src/bin/recyclebin.rs:238-383 *)

\* char::to_lowercase on the letters the model types
LowerChar(c) ==
    CASE c = "A" -> "a" [] c = "B" -> "b" [] c = "C" -> "c" [] c = "D" -> "d"
      [] c = "Q" -> "q" [] c = "R" -> "r" [] c = "X" -> "x" [] OTHER -> c

to_lowercase(s) == [i \in 1..Len(s) |-> LowerChar(s[i])]

\* str::contains(&str)
contains(hay, needle) ==
    \E i \in 0..(Len(hay) - Len(needle)) : SubSeq(hay, i + 1, i + Len(needle)) = needle

ends_with(s, c) == s # <<>> /\ s[Len(s)] = c

QuitWords == { <<"q">>, <<"x">>, <<"e", "x", "i", "t">>, <<"q", "u", "i", "t">> }

\* let cmd = input.trim().to_lowercase()
command_of(line) == to_lowercase(trim(line))

\* for &idx in &indices { op(&items[idx]) }: the calls made, in order
item_loop_reversed(op, its, sel) ==
    [i \in 1..Len(sel) |->
        [op |-> op, item |-> its[sel[Len(sel) + 1 - i] + 1], result |-> "Ok"]]

RECURSIVE item_loop_from(_, _, _, _)
item_loop_from(op, its, sel, acc) ==
    IF sel = <<>> THEN acc
    ELSE LET item == its[Head(sel) + 1]
             res == IF op = "restore_item" THEN restore_item(item)
                    ELSE delete_item_permanently(item)
         IN  \* an Err is printed; the loop goes on either way
             item_loop_from(op, its, Tail(sel),
                            Append(acc, [op |-> op, item |-> item, result |-> res]))

item_loop(op, its, sel) == item_loop_from(op, its, sel, <<>>)

\* the search loop: one line per item whose lower-cased name contains cmd,
\* numbered idx + 1
search_report_renumbered(its, c) ==
    LET hits == SelectSeq(its, LAMBDA it : contains(to_lowercase(it.name), c))
    IN  [i \in 1..Len(hits) |-> [position |-> i, item |-> hits[i]]]

RECURSIVE search_loop(_, _, _, _)
search_loop(its, c, idx, acc) ==
    IF idx >= Len(its) THEN acc
    ELSE search_loop(its, c, idx + 1,
            IF contains(to_lowercase(its[idx + 1].name), c)
            THEN Append(acc, [position |-> idx + 1, item |-> its[idx + 1]])
            ELSE acc)

search_report(its, c) == search_loop(its, c, 0, <<>>)

EnumCall == [op |-> "list_recycle_bin"]
ClearCall == [op |-> "empty_recycle_bin"]

\* The lines a user types (read_line keeps the newline; at end of input it
\* yields the empty string)
SelTokens ==
    { <<>>, <<"0">>, <<"2">>, <<"5">>,
      <<"1", "-", "3">>, <<"3", "-", "1">>, <<"2", "-", "9">>,
      <<"3", ",", "1">>, <<"2", ",", "2">>, <<"x", ",", "2">>,
      <<"1", "-", "3", ",", "2">>,
      <<"f", "o", "l", "d", "e">> }

Words ==
    { s \o <<a>> : s \in SelTokens, a \in {"r", "d"} }
    \cup QuitWords
    \cup { <<" ", "Q">>, <<"1", "D">>, <<"1", " ", "r">>, <<"c">>, <<"C", " ">>,
           <<"a">>, <<"B">>, <<"a", "b">>, <<"z">>, <<"1">>, <<" ">>, <<>> }

Lines == { w \o <<"\n">> : w \in Words } \cup { <<>> }

\* the commands those lines are read as
Commands == { command_of(line) : line \in Lines }

\* lines 296 and 348: what is neither empty, a quit word nor "c" is a
\* restore or purge when it ends in 'r' or 'd', and a search otherwise
ActionCommands ==
    { c \in Commands \ (QuitWords \cup {<<>>, <<"c">>}) :
        ends_with(c, "r") \/ ends_with(c, "d") }

\* lines 297-299 for each such command and each snapshot length:
\* parse_indices(&cmd[..cmd.len() - 1], items.len())
Selections ==
    [c \in ActionCommands |->
        [n \in 0..MaxStore |-> parse_indices(SubSeq(c, 1, Len(c) - 1), n)]]

selection_against_capacity(c, its) == Selections[c][MaxStore]

\* line 299: parse_indices(num_part, items.len())
selection_of(c, its) == Selections[c][Len(its)]

indices_is_empty_never(sel) == FALSE

\* line 301: indices.is_empty()
indices_is_empty(sel) == sel = <<>>

\* lines 309 and 326: items[idx] panics for an index beyond the snapshot
index_in_bounds(its, sel) == \A i \in 1..Len(sel) : sel[i] < Len(its)

SearchCommands ==
    { c \in Commands \ (QuitWords \cup {<<>>, <<"c">>}) :
        ~(ends_with(c, "r") \/ ends_with(c, "d")) }

InitSession ==
    /\ store \in Stores
    /\ items = <<>>
    /\ state = "Start"
    /\ exit = "none"
    /\ branch = "none"
    /\ cmd = <<>>
    /\ selected = <<>>
    /\ calls = <<>>
    /\ report = <<>>

AfterEnumeration_stop_when_empty(ok, stop) ==
    IF ok
    THEN /\ items' = list_recycle_bin(store')
         /\ state' = IF list_recycle_bin(store') = <<>>
                     THEN "Terminated" ELSE "AwaitingCommand"
         /\ exit' = IF list_recycle_bin(store') = <<>> THEN "ok" ELSE "none"
    ELSE /\ items' = items
         /\ state' = "Terminated"
         /\ exit' = "err"

\* how a step that ends in `items = list_recycle_bin()?` leaves the session:
\* an Err returns it from interactive_mode; `stop` says whether an empty
\* snapshot ends the loop
AfterEnumeration(ok, stop) ==
    IF ok
    THEN /\ items' = list_recycle_bin(store')
         /\ state' = IF stop /\ list_recycle_bin(store') = <<>>
                     THEN "Terminated" ELSE "AwaitingCommand"
         /\ exit' = IF stop /\ list_recycle_bin(store') = <<>> THEN "ok" ELSE "none"
    ELSE /\ items' = items
         /\ state' = "Terminated"
         /\ exit' = "err"

\* lines 239-244: the first enumeration; an empty bin returns at once
Start ==
    /\ state = "Start"
    /\ UNCHANGED <<parseVars, xferVars, enumVars>>
    /\ \E ok \in BOOLEAN :
         /\ store' = store
         /\ AfterEnumeration(ok, TRUE)
    /\ branch' = "start"
    /\ cmd' = <<>>
    /\ selected' = <<>>
    /\ calls' = <<EnumCall>>
    /\ report' = <<>>

\* lines 260-263: flushing the prompt or reading the line fails
ReadFails ==
    /\ state = "AwaitingCommand"
    /\ UNCHANGED <<parseVars, xferVars, enumVars>>
    /\ state' = "Terminated"
    /\ exit' = "err"
    /\ branch' = "io_error"
    /\ cmd' = <<>>
    /\ selected' = <<>>
    /\ calls' = <<>>
    /\ report' = <<>>
    /\ UNCHANGED <<store, items>>

\* lines 266-270: an empty command refreshes the snapshot
Refresh ==
    /\ state = "AwaitingCommand"
    /\ UNCHANGED <<parseVars, xferVars, enumVars>>
    /\ \E c \in Commands, ok \in BOOLEAN :
         /\ c = <<>>
         /\ cmd' = c
         /\ store' = store
         /\ AfterEnumeration(ok, FALSE)
    /\ branch' = "refresh"
    /\ selected' = <<>>
    /\ calls' = <<EnumCall>>
    /\ report' = <<>>

\* lines 272-274
Quit ==
    /\ state = "AwaitingCommand"
    /\ UNCHANGED <<parseVars, xferVars, enumVars>>
    /\ \E c \in Commands :
         /\ c \in QuitWords
         /\ cmd' = c
    /\ state' = "Terminated"
    /\ exit' = "ok"
    /\ branch' = "quit"
    /\ selected' = <<>>
    /\ calls' = <<>>
    /\ report' = <<>>
    /\ UNCHANGED <<store, items>>

\* lines 276-294
Clear ==
    /\ state = "AwaitingCommand"
    /\ UNCHANGED <<parseVars, xferVars, enumVars>>
    /\ \E c \in Commands :
         /\ c = <<"c">>
         /\ cmd' = c
    /\ selected' = <<>>
    /\ report' = <<>>
    /\ \/ \* empty_recycle_bin() returned Ok; another process may delete a
          \* file before the bin is listed again
          /\ \/ store' = empty_recycle_bin(store)
             \/ \E e \in Entries : store' = Append(empty_recycle_bin(store), e)
          /\ \E ok \in BOOLEAN : AfterEnumeration(ok, TRUE)
          /\ branch' = "clear"
          /\ calls' = <<ClearCall, EnumCall>>
       \/ \* empty_recycle_bin() returned Err: report and continue
          /\ branch' = "clear_failed"
          /\ calls' = <<ClearCall>>
          /\ state' = "AwaitingCommand"
          /\ exit' = "none"
          /\ UNCHANGED <<store, items>>

\* lines 296-347
RestoreOrPurge ==
    /\ state = "AwaitingCommand"
    /\ UNCHANGED <<parseVars, xferVars, enumVars>>
    /\ \E c \in ActionCommands :
         LET sel == selection_of(c, items)
         IN  /\ cmd' = c
             /\ selected' = sel
             /\ IF indices_is_empty(sel)
                THEN \* "Invalid selection."
                     /\ branch' = "invalid"
                     /\ calls' = <<>>
                     /\ state' = "AwaitingCommand"
                     /\ exit' = "none"
                     /\ UNCHANGED <<store, items>>
                ELSE IF ~index_in_bounds(items, sel)
                THEN \* index out of bounds: the process panics
                     /\ branch' = IF ends_with(c, "r") THEN "restore" ELSE "purge"
                     /\ calls' = <<>>
                     /\ state' = "Terminated"
                     /\ exit' = "panic"
                     /\ UNCHANGED <<store, items>>
                ELSE /\ branch' = IF ends_with(c, "r") THEN "restore" ELSE "purge"
                     /\ store' = store
                     /\ \E ok \in BOOLEAN :
                          /\ AfterEnumeration(ok, TRUE)
                          /\ calls' =
                               item_loop(IF ends_with(c, "r") THEN "restore_item"
                                         ELSE "delete_item_permanently",
                                         items, sel)
                               \o <<EnumCall>>
    /\ report' = <<>>

\* lines 348-379
Search ==
    /\ state = "AwaitingCommand"
    /\ UNCHANGED <<parseVars, xferVars, enumVars>>
    /\ \E c \in SearchCommands :
         /\ cmd' = c
         /\ report' = search_report(items, c)
    /\ branch' = "search"
    /\ selected' = <<>>
    /\ calls' = <<>>
    /\ state' = "AwaitingCommand"
    /\ exit' = "none"
    /\ UNCHANGED <<store, items>>

\* Another process deletes a file (the bin gains an entry) or takes one out
\* of the bin, while the session waits for input
ExternalChange ==
    /\ state = "AwaitingCommand"
    /\ UNCHANGED <<parseVars, xferVars, enumVars>>
    /\ \/ \E e \in Entries \ Range(store) :
            /\ Len(store) < MaxStore
            /\ store' = Append(store, e)
       \/ \E i \in 1..Len(store) :
            store' = SubSeq(store, 1, i - 1) \o SubSeq(store, i + 1, Len(store))
    /\ branch' = "external"
    /\ cmd' = <<>>
    /\ selected' = <<>>
    /\ calls' = <<>>
    /\ report' = <<>>
    /\ UNCHANGED <<items, state, exit>>

Init == InitSession /\ ParseIdle /\ XferIdle /\ EnumIdle

Next ==
    \/ Start
    \/ ReadFails
    \/ Refresh
    \/ Quit
    \/ Clear
    \/ RestoreOrPurge
    \/ Search
    \/ ExternalChange

Spec == Init /\ [][Next]_vars

-----------------------------------------------------------------------------
(* Properties of the interactive session, checked under Spec *)

ItemCalls(cs) == SelectSeq(cs, LAMBDA c : c.op # "list_recycle_bin")

Enumerations(cs) == Cardinality({ i \in 1..Len(cs) : cs[i].op = "list_recycle_bin" })

\* the step is a restore or purge command that selected something
ActedOnSelection == branch' \in {"restore", "purge"}

\* C7: after a restore or purge command with a non-empty selection the bin
\* no longer holds the selected items and still holds every unselected item
\* of the snapshot in its previous order, so the re-enumerated snapshot is
\* the old snapshot minus exactly the selected items.
C7_SelectedItemsLeaveTheBin ==
    [][ (ActedOnSelection /\ exit' # "err") =>
          LET gone == { items[selected'[i] + 1] : i \in 1..Len(selected') }
              kept == SelectSeq(items, LAMBDA it : it \notin gone)
              keptPaths == [i \in 1..Len(kept) |-> kept[i].original_path]
          IN  /\ \A it \in gone : it.original_path \notin Range(store')
              /\ SelectSeq(store', LAMBDA e : e \in Range(keptPaths)) = keptPaths
              /\ items' = kept
      ]_vars

\* C8: after every successful clear and after every restore or purge with a
\* non-empty selection, the catalog is re-enumerated exactly once and the
\* session is Terminated if and only if that new snapshot is empty;
\* otherwise it is back in AwaitingCommand holding the new snapshot.
C8_TerminatedIffNewSnapshotEmpty ==
    branch \in {"clear", "restore", "purge"} =>
        /\ Enumerations(calls) = 1
        /\ state = "Terminated" <=> items = <<>>
        /\ state # "Terminated" =>
              /\ state = "AwaitingCommand"
              /\ items = list_recycle_bin(store)

\* the same, for the steps whose re-enumeration returned a snapshot
C8_WhenEnumerationSucceeds ==
    (branch \in {"clear", "restore", "purge"} /\ exit # "err") =>
        /\ Enumerations(calls) = 1
        /\ items = list_recycle_bin(store)
        /\ state = "Terminated" <=> items = <<>>
        /\ state # "Terminated" => state = "AwaitingCommand"

\* a search command: non-empty, no quit word, not "c", not ending in r or d
IsSearchInput(c) ==
    /\ c # <<>>
    /\ c \notin { <<"q">>, <<"x">>, <<"e", "x", "i", "t">>, <<"q", "u", "i", "t">>, <<"c">> }
    /\ c[Len(c)] \notin {"r", "d"}

\* C9: a search command calls neither enumerate, restore, deletePermanently
\* nor clear, leaves the snapshot unchanged and the session in
\* AwaitingCommand, and reports exactly the items of that snapshot whose
\* lower-cased name contains the command, each with its position in it.
C9_SearchReadsTheSnapshotOnly ==
    [][ (branch' \notin {"external", "io_error", "start"} /\ IsSearchInput(cmd')) =>
          /\ branch' = "search"
          /\ calls' = <<>>
          /\ items' = items
          /\ store' = store
          /\ state' = "AwaitingCommand"
          /\ { report'[i].position : i \in 1..Len(report') } =
                { p \in 1..Len(items) : contains(to_lowercase(items[p].name), cmd') }
          /\ \A i \in 1..Len(report') : report'[i].item = items[report'[i].position]
          /\ \A i \in 1..(Len(report') - 1) : report'[i].position < report'[i + 1].position
      ]_vars

\* a search that found something in a snapshot the bin no longer matches
C9_Witness ==
    /\ branch = "search"
    /\ report # <<>>
    /\ items # list_recycle_bin(store)
    /\ report # search_report(list_recycle_bin(store), cmd)

\* C10: a restore or purge command invokes the per-item operation exactly
\* once for each selected index, in strictly ascending index order, on the
\* item of the pre-command snapshot at that index, and only then
\* re-enumerates; no item is left out.
C10_EachSelectedItemOnceAscending ==
    [][ ActedOnSelection =>
          LET ops == ItemCalls(calls')
          IN  /\ selected' # <<>>
              /\ StrictlyAscending(selected')
              /\ Len(ops) = Len(selected')
              /\ \A i \in 1..Len(ops) :
                    /\ selected'[i] < Len(items)
                    /\ ops[i].item = items[selected'[i] + 1]
                    /\ ops[i].op = IF branch' = "restore" THEN "restore_item"
                                   ELSE "delete_item_permanently"
              /\ calls' = ops \o <<EnumCall>>
      ]_vars

\* "3,1d": two items purged, the first of the snapshot before the third
C10_Witness ==
    /\ branch = "purge"
    /\ cmd = <<"3", ",", "1", "d">>
    /\ selected = <<0, 2>>
    /\ Len(calls) = 3
    /\ calls[1].item.original_path # calls[2].item.original_path


\* C18: an enumeration failure on refresh, after clear or after restore or
\* purge does not end the session: it is reported and the session is back in
\* AwaitingCommand.
C18_EnumerationFailureKeepsSession ==
    branch \in {"refresh", "clear", "restore", "purge"} =>
        /\ exit # "err"
        /\ state = "Terminated" => items = <<>>

\* the step reads a command that cannot act: a restore or purge whose
\* selection, parsed against the snapshot, is empty, or a clear that failed
CannotAct ==
    \/ branch' = "clear_failed"
    \/ /\ branch' \notin {"external", "io_error", "start"}
       /\ cmd' # <<>>
       /\ cmd'[Len(cmd')] \in {"r", "d"}
       /\ parse_indices(SubSeq(cmd', 1, Len(cmd') - 1), Len(items)) = <<>>

\* C21: a command that cannot act leaves the session unchanged: no restore
\* or purge is invoked, the catalog is not enumerated, the snapshot and the
\* bin are unchanged, nothing is searched, and the session stays in
\* AwaitingCommand.
C21_CommandThatCannotActChangesNothing ==
    [][ CannotAct =>
          /\ branch' \in {"invalid", "clear_failed"}
          /\ calls' = IF branch' = "clear_failed" THEN <<ClearCall>> ELSE <<>>
          /\ items' = items
          /\ store' = store
          /\ report' = <<>>
          /\ state' = "AwaitingCommand"
          /\ exit' = "none"
      ]_vars

\* "folder" typed over a non-empty snapshot: an invalid selection
C21_Witness ==
    /\ branch = "invalid"
    /\ cmd = <<"f", "o", "l", "d", "e", "r">>
    /\ items # <<>>
    /\ state = "AwaitingCommand"
    /\ calls = <<>>

\* C22: every index a restore or purge uses is within the snapshot it
\* indexes: the selection is the token parsed against the length of that
\* snapshot, and the catalog is enumerated only after the last per-item
\* operation, so no access is out of bounds.
C22_IndicesWithinSnapshot ==
    [][ branch' \in {"restore", "purge"} =>
          /\ exit' # "panic"
          /\ selected' = parse_indices(SubSeq(cmd', 1, Len(cmd') - 1), Len(items))
          /\ \A i \in 1..Len(selected') :
                0 <= selected'[i] /\ selected'[i] < Len(items)
          /\ Len(calls') = Len(selected') + 1
          /\ \A i \in 1..Len(selected') :
                /\ calls'[i].op # "list_recycle_bin"
                /\ calls'[i].item = items[selected'[i] + 1]
      ]_vars

\* the last index selected is valid in the snapshot but beyond the bin as it
\* is now: another process took entries out after the snapshot was made
C22_Witness ==
    /\ branch = "purge"
    /\ exit = "none"
    /\ Len(selected) >= 2
    /\ selected[Len(selected)] >= Len(store)
    /\ Len(calls) = Len(selected) + 1
    /\ calls[Len(selected)].item.original_path \notin Range(store)

\* C23: the session is Terminated only when the initial snapshot was empty
\* (before any command is read), a quit word was entered, the enumeration
\* after a successful clear or after a restore or purge was empty, or an
\* enumeration or IO error occurred; an empty input never ends it unless
\* the enumeration fails.
C23_WaysToTerminate ==
    /\ state = "Terminated" =>
          \/ branch = "start" /\ exit = "ok" /\ items = <<>> /\ cmd = <<>>
          \/ branch = "quit" /\ exit = "ok"
                /\ cmd \in { <<"q">>, <<"x">>, <<"e", "x", "i", "t">>,
                              <<"q", "u", "i", "t">> }
          \/ branch \in {"clear", "restore", "purge"} /\ exit = "ok" /\ items = <<>>
          \/ exit = "err"
                /\ branch \in {"start", "refresh", "clear", "restore", "purge",
                                "io_error"}
    /\ (branch = "refresh" /\ exit # "err") =>
          /\ state = "AwaitingCommand"
          /\ cmd = <<>>
          /\ items = list_recycle_bin(store)

\* an empty input over a bin that became empty: the session goes on with an
\* empty snapshot
C23_Witness ==
    /\ branch = "refresh"
    /\ state = "AwaitingCommand"
    /\ items = <<>>
    /\ store = <<>>

-----------------------------------------------------------------------------
(* The bulk-transfer engine, src/src/lib.rs and src/src/bin/xcopy.rs *)

\* the directories of the model: the current directory and "d"
Dot == <<".">>
DirD == <<"d">>
Dirs == {Dot, DirD}

\* what read_dir(dir) gives: an Err when the directory cannot be read, else
\* one io::Result<DirEntry> per entry of the directory, in the order the
\* system yields them; `read` is FALSE for an entry the iterator yields as an
\* Err.  The names in one directory are distinct.
FileNames == {"f", "g"}
ReadDirErr == [ok |-> FALSE]
DirEntries == [name : FileNames, read : BOOLEAN]
Listings ==
    {ReadDirErr}
    \cup { [ok |-> TRUE, entries |-> es] :
             es \in { e \in UNION { [1..n -> DirEntries] : n \in 0..MaxDirLen } :
                        \A i, j \in 1..Len(e) : i # j => e[i].name # e[j].name } }

\* the source tokens of the model: a plain path, "*" and "d*"
PlainA == <<"a">>
Star == <<"*">>
DStar == <<"d", "*">>
SourceTokens == {PlainA, Star, DStar}
Target == <<"t">>

SourceLists == UNION { [1..n -> SourceTokens] : n \in 1..MaxSources }

\* command lines: too short, the version flag, or sources and a destination
ArgLists ==
    {<<>>, <<PlainA>>, << <<"-", "v">> >>}
    \cup { src \o <<Target>> : src \in SourceLists }

\* DirEntry::path(): the directory joined with the file name
join(dir, name) == dir \o <<"\\">> \o <<name>>

\* read_dir(dir)?.filter_map(|entry| entry.ok()).map(|entry| entry.path())
list_dir(listing, dir) ==
    LET good == SelectSeq(listing.entries, LAMBDA r : r.read)
    IN  [i \in 1..Len(good) |-> join(dir, good[i].name)]

extend_dedup(all, list) == all \o SelectSeq(list, LAMBDA q : q \notin Range(all))

\* lines 261 and 275: all_paths.extend(list_dir)
extend(all, list) == all \o list

read_dir_or_empty(dir) ==
    IF dir \in DOMAIN fs /\ fs[dir].ok THEN fs[dir]
    ELSE [ok |-> TRUE, entries |-> <<>>]

read_dir(dir) == IF dir \in DOMAIN fs THEN fs[dir] ELSE ReadDirErr

\* lines 253-278: the directory a source token lists; a token that is no
\* wildcard is pushed as it is
wildcard_dir(source) ==
    IF source = Star THEN [wild |-> TRUE, dir |-> Dot]
    ELSE IF ends_with(source, "*")
         THEN [wild |-> TRUE,
               dir |-> IF Len(source) > 1 THEN SubSeq(source, 1, Len(source) - 1)
                       ELSE Dot]
         ELSE [wild |-> FALSE]

\* logs(): one line appended, or nothing when the file cannot be opened or
\* written
logs(lg, data, written) == IF written THEN Append(lg, data) ELSE lg

logs_raises_on_failure(written) == ~written

\* lib.rs:43-54: logs() returns (); a failed open skips the `if let Ok` body
\* and a failed writeln! is dropped by `let _ =`, so neither becomes an error
\* or a panic of the caller
logs_raises(written) == FALSE

HexChar(n) ==
    CASE n = 0 -> "0" [] n = 1 -> "1" [] n = 2 -> "2" [] n = 3 -> "3"
      [] n = 4 -> "4" [] n = 5 -> "5" [] n = 6 -> "6" [] n = 7 -> "7"
      [] n = 8 -> "8" [] n = 9 -> "9" [] n = 10 -> "a" [] n = 11 -> "b"
      [] n = 12 -> "c" [] n = 13 -> "d" [] n = 14 -> "e" [] n = 15 -> "f"

RECURSIVE Pow16(_)
Pow16(e) == IF e = 0 THEN 1 ELSE 16 * Pow16(e - 1)

\* format!("{:08x}", result) on an i32: the eight hex digits of its
\* two's-complement bits
Hex8(code) == [i \in 1..8 |-> HexChar((code \div Pow16(8 - i)) % 16)]

\* format!("SHFileOperation failed: 0x{:08x}", result)
error_msg(code) == <<"SHFileOperation failed: 0x">> \o Hex8(code)

\* lines 130-140 with the tests in the other order
shell_outcome_code_first(aborted, code) ==
    IF code # 0 THEN [ok |-> FALSE, err |-> error_msg(code)]
    ELSE IF aborted # 0 THEN [ok |-> TRUE, val |-> FALSE]
    ELSE [ok |-> TRUE, val |-> TRUE]

\* lines 130-140: what win32_shell_operation makes of fAnyOperationsAborted
\* and of SHFileOperationW's return value
shell_outcome(aborted, code) ==
    IF aborted # 0 THEN [ok |-> TRUE, val |-> FALSE]
    ELSE IF code # 0 THEN [ok |-> FALSE, err |-> error_msg(code)]
    ELSE [ok |-> TRUE, val |-> TRUE]

match_result_abort_is_error(out) ==
    IF out.ok /\ out.val THEN [ok |-> TRUE]
    ELSE [ok |-> FALSE, err |-> IF out.ok THEN <<"aborted">> ELSE out.err]

\* lines 295-301: Ok(_) => Ok(()), Err(e) => Err(e)
match_result(out) ==
    IF out.ok THEN [ok |-> TRUE] ELSE [ok |-> FALSE, err |-> out.err]

shell_requests_per_file(paths, d, op) ==
    [i \in 1..Len(paths) |-> [sources |-> <<paths[i]>>, dest |-> d, operation |-> op]]

\* line 295: the requests process_sources hands to win32_shell_operation
shell_requests(paths, d, op) ==
    << [sources |-> paths, dest |-> d, operation |-> op] >>

\* what SHFileOperationW can return
AbortFlags == {0, 1}
ShellCodes == {0, 2, 1223, -2147024891}

InitXfer ==
    /\ args \in ArgLists
    /\ fs \in [Dirs -> Listings]
    /\ sources = <<>>
    /\ dest = <<>>
    /\ operation = "none"
    /\ tok = 0
    /\ all_paths = <<>>
    /\ shellCalls = <<>>
    /\ shellRet = <<>>
    /\ outcome = <<>>
    /\ log = <<>>
    /\ logCalls = <<>>
    /\ result = <<>>
    /\ exitCode = -1
    /\ xpc = "main"
    /\ ParseIdle
    /\ SessionIdle
    /\ EnumIdle

\* xcopy.rs:13-27: the version flag, the usage error, or the call of
\* process_sources(sources, dest, FileOperation::Copy)
Main ==
    /\ xpc = "main"
    /\ IF Len(args) = 1 /\ args[1] \in { <<"-", "v">>, <<"-", "-", "v", "e", "r", "s", "i", "o", "n">> }
       THEN /\ exitCode' = 0
            /\ xpc' = "exited"
            /\ UNCHANGED <<sources, dest, operation, tok>>
       ELSE IF Len(args) + 1 < 3
       THEN /\ exitCode' = 1
            /\ xpc' = "exited"
            /\ UNCHANGED <<sources, dest, operation, tok>>
       ELSE /\ sources' = SubSeq(args, 1, Len(args) - 1)
            /\ dest' = args[Len(args)]
            /\ operation' = "COPY"
            /\ tok' = 1
            /\ xpc' = "expand"
            /\ UNCHANGED exitCode
    /\ UNCHANGED <<args, fs, all_paths, shellCalls, shellRet, outcome, log,
                   logCalls, result>>
    /\ UNCHANGED <<parseVars, sessionVars, enumVars>>

\* lib.rs:252-279: one turn of the loop over the source tokens
ExpandToken ==
    /\ xpc = "expand"
    /\ tok <= Len(sources)
    /\ LET source == sources[tok]
           w == wildcard_dir(source)
       IN  IF ~w.wild
           THEN /\ all_paths' = Append(all_paths, source)
                /\ tok' = tok + 1
                /\ UNCHANGED <<result, xpc>>
           ELSE IF ~read_dir(w.dir).ok
           THEN \* `?`: process_sources returns the error
                /\ result' = [ok |-> FALSE, err |-> <<"Failed to read directory">>]
                /\ xpc' = "returned"
                /\ UNCHANGED <<all_paths, tok>>
           ELSE /\ all_paths' = extend(all_paths, list_dir(read_dir(w.dir), w.dir))
                /\ tok' = tok + 1
                /\ UNCHANGED <<result, xpc>>
    /\ UNCHANGED <<args, sources, dest, operation, fs, shellCalls, shellRet,
                   outcome, log, logCalls, exitCode>>
    /\ UNCHANGED <<parseVars, sessionVars, enumVars>>

\* a call logs(data): the record is appended to the file or lost; the caller
\* goes on to `next`
CallLogs(data, written, next) ==
    /\ logCalls' = Append(logCalls, data)
    /\ log' = logs(log, data, written)
    /\ xpc' = IF logs_raises(written) THEN "panicked" ELSE next

\* lib.rs:282-293: the record of what is about to be done
LogIntent ==
    /\ xpc = "expand"
    /\ tok > Len(sources)
    /\ \E written \in BOOLEAN :
         CallLogs([kind |-> "intent", operation |-> operation,
                   files |-> all_paths, dest |-> dest], written, "dispatch")
    /\ UNCHANGED <<args, sources, dest, operation, fs, tok, all_paths, shellCalls,
                   shellRet, outcome, result, exitCode>>
    /\ UNCHANGED <<parseVars, sessionVars, enumVars>>

\* lib.rs:295 and 103-142: win32_shell_operation(all_paths, dest, operation)
Dispatch ==
    /\ xpc = "dispatch"
    /\ shellCalls' = shellCalls \o shell_requests(all_paths, dest, operation)
    /\ \E aborted \in AbortFlags, code \in ShellCodes :
         LET out == shell_outcome(aborted, code)
         IN  /\ shellRet' = [aborted |-> aborted, code |-> code]
             /\ outcome' = out
             /\ IF out.ok
                THEN /\ xpc' = "match"
                     /\ UNCHANGED <<log, logCalls>>
                ELSE \* line 136: logs(&error_msg)
                     \E written \in BOOLEAN :
                         CallLogs([kind |-> "error", text |-> out.err],
                                  written, "match")
    /\ UNCHANGED <<args, sources, dest, operation, fs, tok, all_paths, result, exitCode>>
    /\ UNCHANGED <<parseVars, sessionVars, enumVars>>

\* lib.rs:295-301: Ok(_) => Ok(()), Err(e) => { logs(&e); Err(e) }
Return ==
    /\ xpc = "match"
    /\ result' = match_result(outcome)
    /\ IF match_result(outcome).ok
       THEN /\ xpc' = "returned"
            /\ UNCHANGED <<log, logCalls>>
       ELSE \E written \in BOOLEAN :
                CallLogs([kind |-> "error", text |-> match_result(outcome).err],
                         written, "returned")
    /\ UNCHANGED <<args, sources, dest, operation, fs, tok, all_paths, shellCalls,
                   shellRet, outcome, exitCode>>
    /\ UNCHANGED <<parseVars, sessionVars, enumVars>>

\* xcopy.rs:27-36: an Err is printed, logged and turned into exit code 1
MainExit ==
    /\ xpc = "returned"
    /\ IF result.ok
       THEN /\ exitCode' = 0
            /\ xpc' = "exited"
            /\ UNCHANGED <<log, logCalls>>
       ELSE /\ exitCode' = 1
            /\ \E written \in BOOLEAN :
                 CallLogs([kind |-> "main_error", text |-> result.err],
                          written, "exited")
    /\ UNCHANGED <<args, sources, dest, operation, fs, tok, all_paths, shellCalls,
                   shellRet, outcome, result>>
    /\ UNCHANGED <<parseVars, sessionVars, enumVars>>

NextXfer ==
    \/ Main
    \/ ExpandToken
    \/ LogIntent
    \/ Dispatch
    \/ Return
    \/ MainExit

SpecXfer == InitXfer /\ [][NextXfer]_vars

-----------------------------------------------------------------------------
(* Properties of the bulk-transfer engine, checked under SpecXfer *)

PastExpansion == xpc \in {"expand", "dispatch", "match", "returned", "exited"}
                 /\ tok > Len(sources)

Dispatched == PastExpansion /\ xpc \in {"match", "returned", "exited"}

\* C1: a call of process_sources that gets past path expansion invokes
\* win32_shell_operation exactly once, with the whole expanded list in
\* expansion order and the one destination; never once per file, and never
\* again whatever the outcome.
C1_OneShellCallPerRun ==
    /\ Len(shellCalls) <= 1
    /\ Dispatched =>
          /\ Len(shellCalls) = 1
          /\ shellCalls[1].sources = all_paths
          /\ shellCalls[1].dest = dest
          /\ shellCalls[1].operation = operation

\* a failed transfer of two or more paths, after process_sources returned
C1_Witness ==
    /\ xpc = "exited"
    /\ PastExpansion
    /\ Len(all_paths) >= 2
    /\ ~result.ok
    /\ Len(shellCalls) = 1

HexDigit(c) ==
    CASE c = "0" -> 0 [] c = "1" -> 1 [] c = "2" -> 2 [] c = "3" -> 3
      [] c = "4" -> 4 [] c = "5" -> 5 [] c = "6" -> 6 [] c = "7" -> 7
      [] c = "8" -> 8 [] c = "9" -> 9 [] c = "a" -> 10 [] c = "b" -> 11
      [] c = "c" -> 12 [] c = "d" -> 13 [] c = "e" -> 14 [] c = "f" -> 15
      [] OTHER -> -1

\* the 32-bit signed integer eight hex digits stand for
RECURSIVE HexLow(_)
HexLow(h) == IF h = <<>> THEN 0 ELSE HexDigit(Head(h)) * Pow16(Len(h) - 1) + HexLow(Tail(h))

HexToI32(h) ==
    (IF HexDigit(h[1]) >= 8 THEN HexDigit(h[1]) - 16 ELSE HexDigit(h[1])) * Pow16(7)
    + HexLow(Tail(h))

\* C2: whatever pair (abort flag, status code) the capability returns, the
\* outcome is Ok(false) when the flag is set, whatever the code; an Err whose
\* message is formatted from the code when the flag is clear and the code is
\* not zero; Ok(true) when the flag is clear and the code is zero.
C2_OutcomeOfFlagAndCode ==
    Dispatched =>
        /\ shellRet.aborted # 0 => outcome = [ok |-> TRUE, val |-> FALSE]
        /\ (shellRet.aborted = 0 /\ shellRet.code # 0) =>
              /\ ~outcome.ok
              /\ Len(outcome.err) = 9
              /\ outcome.err[1] = "SHFileOperation failed: 0x"
              /\ \A i \in 2..9 : HexDigit(outcome.err[i]) >= 0
              /\ HexToI32(Tail(outcome.err)) = shellRet.code
        /\ (shellRet.aborted = 0 /\ shellRet.code = 0) =>
              outcome = [ok |-> TRUE, val |-> TRUE]

\* the user cancelled and the call returned a non-zero code as well
C2_Witness ==
    /\ Dispatched
    /\ shellRet.aborted # 0
    /\ shellRet.code # 0
    /\ outcome = [ok |-> TRUE, val |-> FALSE]

\* the paths of the entries of `dir` that read_dir yielded as Ok, in the
\* order it yielded them
Listed(dir) ==
    LET es == SelectSeq(fs[dir].entries, LAMBDA e : e.read)
    IN  [i \in 1..Len(es) |-> dir \o <<"\\", es[i].name>>]

\* the expansion of one source token on its own
TokenExpansion(t) ==
    IF t = <<"*">> THEN Listed(<<".">>)
    ELSE IF t[Len(t)] = "*" THEN Listed(SubSeq(t, 1, Len(t) - 1))
    ELSE <<t>>

RECURSIVE ExpansionOf(_)
ExpansionOf(ts) ==
    IF ts = <<>> THEN <<>>
    ELSE TokenExpansion(Head(ts)) \o ExpansionOf(Tail(ts))

\* C11: the expanded path list is the concatenation, in token order, of each
\* token's own expansion (a token that is no wildcard expands to itself);
\* nothing is deduplicated across tokens, and that list is the one submitted
\* to the transfer capability.
C11_ConcatenationNoDedup ==
    /\ xpc = "expand" => all_paths = ExpansionOf(SubSeq(sources, 1, tok - 1))
    /\ PastExpansion => all_paths = ExpansionOf(sources)
    /\ \A i \in 1..Len(shellCalls) : shellCalls[i].sources = ExpansionOf(sources)

\* "d*" twice over a directory of two files: each path is submitted twice
C11_Witness ==
    /\ Dispatched
    /\ sources = <<DStar, DStar>>
    /\ Len(all_paths) = 4
    /\ all_paths[1] = all_paths[3]
    /\ all_paths[2] = all_paths[4]
    /\ all_paths[1] # all_paths[2]
    /\ shellCalls[1].sources = all_paths

\* a single wildcard token, and the directory it lists
IsWildcard(t) == t # <<>> /\ t[Len(t)] = "*"

ListedDir(t) == IF Len(t) > 1 THEN SubSeq(t, 1, Len(t) - 1) ELSE <<".">>

\* C12: for a single wildcard token the expansion holds exactly one path for
\* each immediate entry of the listed directory, in enumeration order, with
\* no entry dropped and none duplicated.
C12_OnePathPerEntry ==
    (PastExpansion /\ Len(sources) = 1 /\ IsWildcard(sources[1])) =>
        LET dir == ListedDir(sources[1])
            es == fs[dir].entries
        IN  all_paths = [i \in 1..Len(es) |-> dir \o <<"\\", es[i].name>>]

\* the same, for a directory whose entries are all yielded as Ok
C12_WhenEveryEntryIsRead ==
    (PastExpansion /\ Len(sources) = 1 /\ IsWildcard(sources[1])
       /\ \A i \in 1..Len(fs[ListedDir(sources[1])].entries) :
             fs[ListedDir(sources[1])].entries[i].read) =>
        LET dir == ListedDir(sources[1])
            es == fs[dir].entries
        IN  all_paths = [i \in 1..Len(es) |-> dir \o <<"\\", es[i].name>>]

\* C13: for every dispatched transfer exactly one audit record, naming the
\* operation, the full source list and the destination, is emitted before the
\* capability is called; afterwards no further record is emitted when the
\* outcome is Completed or AbortedByUser and exactly one when it is Failed.
C13_AuditRecords ==
    /\ xpc = "dispatch" => Len(logCalls) = 1
    /\ (Dispatched /\ all_paths # <<>> /\ xpc \in {"returned", "exited"}) =>
          /\ logCalls[1] = [kind |-> "intent", operation |-> operation,
                            files |-> shellCalls[1].sources, dest |-> dest]
          /\ Len(logCalls) = IF outcome.ok THEN 1 ELSE 2

\* C14: a transfer the user aborted is reported as success: process_sources
\* returns Ok and the process does not exit with code 1; a failed transfer
\* makes process_sources return the error and the process exit with code 1.
C14_AbortIsSuccessFailureIsExit1 ==
    /\ (Dispatched /\ xpc \in {"returned", "exited"}) =>
          /\ shellRet.aborted # 0 => result = [ok |-> TRUE]
          /\ (shellRet.aborted = 0 /\ shellRet.code # 0) =>
                /\ ~result.ok
                /\ result.err = outcome.err
    /\ (Dispatched /\ xpc = "exited") =>
          /\ shellRet.aborted # 0 => exitCode = 0
          /\ (shellRet.aborted = 0 /\ shellRet.code # 0) => exitCode = 1

\* the user aborted a transfer whose call also returned an error code, and
\* the process ended with exit code 0
C14_Witness ==
    /\ xpc = "exited"
    /\ Dispatched
    /\ shellRet.aborted # 0
    /\ shellRet.code # 0
    /\ result.ok
    /\ exitCode = 0

\* C15: whenever the transfer capability is invoked, the source list passed
\* to it is non-empty.
C15_SourcesNonEmptyAtDispatch ==
    \A i \in 1..Len(shellCalls) : shellCalls[i].sources # <<>>

RECURSIVE IsSubSeq(_, _)
IsSubSeq(a, b) ==
    IF a = <<>> THEN TRUE
    ELSE IF b = <<>> THEN FALSE
    ELSE IF Head(a) = Head(b) THEN IsSubSeq(Tail(a), Tail(b))
    ELSE IsSubSeq(a, Tail(b))

\* C16: a log write that fails never changes the primary operation: logs
\* raises nothing, a failed write only leaves its record out of the file, and
\* whichever writes failed the capability is called once with the expanded
\* list and process_sources returns what the capability's answer determines.
C16_LogFailuresSwallowed ==
    /\ xpc # "panicked"
    /\ IsSubSeq(log, logCalls)
    /\ Dispatched =>
          shellCalls = << [sources |-> ExpansionOf(sources), dest |-> dest,
                           operation |-> operation] >>
    /\ (Dispatched /\ xpc \in {"returned", "exited"}) =>
          result = IF shellRet.aborted # 0 \/ shellRet.code = 0
                   THEN [ok |-> TRUE]
                   ELSE [ok |-> FALSE, err |-> error_msg(shellRet.code)]

\* a failed transfer none of whose four log writes reached the file
C16_Witness ==
    /\ xpc = "exited"
    /\ Dispatched
    /\ Len(logCalls) = 4
    /\ log = <<>>
    /\ Len(shellCalls) = 1
    /\ ~result.ok
    /\ exitCode = 1

\* some wildcard source token names a directory that cannot be listed
HasUnreadableWildcard ==
    \E i \in 1..Len(sources) :
        /\ IsWildcard(sources[i])
        /\ ~fs[ListedDir(sources[i])].ok

\* C24: if listing the directory of any wildcard token fails,
\* process_sources returns an error without writing the pre-dispatch audit
\* record and without invoking the transfer capability, whatever earlier
\* tokens have already been expanded.
C24_UnreadableDirectoryStopsEverything ==
    HasUnreadableWildcard =>
        /\ xpc \in {"expand", "returned", "exited"}
        /\ shellCalls = <<>>
        /\ \A i \in 1..Len(logCalls) : logCalls[i].kind # "intent"
        /\ xpc = "returned" => logCalls = <<>>
        /\ xpc \in {"returned", "exited"} =>
              /\ ~result.ok
              /\ result.err = <<"Failed to read directory">>
        /\ xpc = "exited" => exitCode = 1

\* "*" was expanded to two paths before the listing of "d" failed
C24_Witness ==
    /\ xpc = "exited"
    /\ sources = <<Star, DStar>>
    /\ fs[Dot].ok
    /\ ~fs[DirD].ok
    /\ Len(all_paths) = 2
    /\ shellCalls = <<>>
    /\ ~result.ok

-----------------------------------------------------------------------------
(* SpecEnum: list_recycle_bin, src/src/bin/recyclebin.rs:54-135, one shell *)
(* call at a time, with the id lists the shell allocates for it            *)

\* the id lists (ITEMIDLIST) allocated by the shell, to be released with
\* CoTaskMemFree: the recycle-bin folder's and one per enumerated entry
FolderPidl == [kind |-> "folder", n |-> 0]

ItemPidl(i) == [kind |-> "item", n |-> i]

\* a call that fills an Option<interface>: an error, Ok with the interface,
\* or Ok with None
ComResults == {"ok", "err", "none"}

\* GetDisplayNameOf(SHGDN_FORPARSING) of the i-th entry
ParsingName(i) == <<"C", ":", "\\">> \o EntryName(i)

\* lines 124-135: the text, or String::new() when StrRetToBufW fails
strret_to_string(converted, text) == IF converted THEN text ELSE <<>>

InitEnum ==
    /\ epc = "location"
    /\ fetched = 0
    /\ held = {}
    /\ eitems = <<>>
    /\ eresult = "none"
    /\ ParseIdle
    /\ SessionIdle
    /\ XferIdle

\* how a `?` on an Err leaves the function
ReturnErr ==
    /\ epc' = "returned"
    /\ eresult' = "Err"

\* lines 59-60: SHGetSpecialFolderLocation(None, CSIDL_BITBUCKET, &mut pidl)?
GetFolderLocation ==
    /\ epc = "location"
    /\ \E ok \in BOOLEAN :
         IF ok
         THEN /\ held' = held \cup {FolderPidl}
              /\ epc' = "desktop"
              /\ UNCHANGED eresult
         ELSE /\ ReturnErr
              /\ UNCHANGED held
    /\ UNCHANGED <<fetched, eitems>>
    /\ UNCHANGED <<parseVars, sessionVars, xferVars>>

\* lines 62-65: SHGetDesktopFolder(&mut shell_folder)?; with no folder the
\* function falls through to Ok(items) at line 121
GetDesktopFolder ==
    /\ epc = "desktop"
    /\ \E r \in ComResults :
         CASE r = "ok" -> epc' = "bind" /\ UNCHANGED eresult
           [] r = "err" -> ReturnErr
           [] r = "none" -> epc' = "returned" /\ eresult' = "Ok"
    /\ UNCHANGED <<fetched, held, eitems>>
    /\ UNCHANGED <<parseVars, sessionVars, xferVars>>

\* lines 66-74: folder.BindToObject(pidl, ..)?
BindToObject ==
    /\ epc = "bind"
    /\ \E r \in ComResults :
         CASE r = "ok" -> epc' = "enum_objects" /\ UNCHANGED eresult
           [] r = "err" -> ReturnErr
           [] r = "none" -> epc' = "free_folder" /\ UNCHANGED eresult
    /\ UNCHANGED <<fetched, held, eitems>>
    /\ UNCHANGED <<parseVars, sessionVars, xferVars>>

\* lines 75-82: rb_folder.EnumObjects(..)?
EnumObjects ==
    /\ epc = "enum_objects"
    /\ \E r \in ComResults :
         CASE r = "ok" -> epc' = "next" /\ UNCHANGED eresult
           [] r = "err" -> ReturnErr
           [] r = "none" -> epc' = "free_folder" /\ UNCHANGED eresult
    /\ UNCHANGED <<fetched, held, eitems>>
    /\ UNCHANGED <<parseVars, sessionVars, xferVars>>

\* lines 83-88 and 110-112: enumerator.Next(1, &mut item_pidl, ..) yields one
\* more entry's id list, or the loop breaks
NextEntry ==
    /\ epc = "next"
    /\ \/ /\ fetched < MaxStore
          /\ fetched' = fetched + 1
          /\ held' = held \cup {ItemPidl(fetched + 1)}
          /\ epc' = "resolve"
       \/ /\ epc' = "free_folder"
          /\ UNCHANGED <<fetched, held>>
    /\ UNCHANGED <<eitems, eresult>>
    /\ UNCHANGED <<parseVars, sessionVars, xferVars>>

\* lines 90-107: the item is pushed when both GetDisplayNameOf calls succeed,
\* with whatever strret_to_string made of each name
ResolveEntry ==
    /\ epc = "resolve"
    /\ \E nameOk, nameConverted, pathOk, pathConverted \in BOOLEAN :
         eitems' = IF nameOk /\ pathOk
                   THEN Append(eitems,
                          [name |-> strret_to_string(nameConverted, EntryName(fetched)),
                           original_path |->
                               strret_to_string(pathConverted, ParsingName(fetched)),
                           size |-> 0])
                   ELSE eitems
    /\ epc' = "free_item"
    /\ UNCHANGED <<fetched, held, eresult>>
    /\ UNCHANGED <<parseVars, sessionVars, xferVars>>

\* line 109: CoTaskMemFree(item_pidl)
FreeItem ==
    /\ epc = "free_item"
    /\ held' = held \ {ItemPidl(fetched)}
    /\ epc' = "next"
    /\ UNCHANGED <<fetched, eitems, eresult>>
    /\ UNCHANGED <<parseVars, sessionVars, xferVars>>

\* lines 117-121: CoTaskMemFree(pidl); Ok(items)
FreeFolder ==
    /\ epc = "free_folder"
    /\ held' = held \ {FolderPidl}
    /\ epc' = "returned"
    /\ eresult' = "Ok"
    /\ UNCHANGED <<fetched, eitems>>
    /\ UNCHANGED <<parseVars, sessionVars, xferVars>>

NextEnum ==
    \/ GetFolderLocation
    \/ GetDesktopFolder
    \/ BindToObject
    \/ EnumObjects
    \/ NextEntry
    \/ ResolveEntry
    \/ FreeItem
    \/ FreeFolder

SpecEnum == InitEnum /\ [][NextEnum]_vars

-----------------------------------------------------------------------------
(* Properties of list_recycle_bin, checked under SpecEnum *)

\* C17: every item of every snapshot the enumeration builds or returns has a
\* non-empty display name; an entry whose name cannot be resolved or
\* converted is skipped.
C17_DisplayNameNeverEmpty ==
    \A i \in 1..Len(eitems) : eitems[i].name # <<>>

\* C19: when list_recycle_bin returns, on whichever path, every id list it
\* acquired (the folder's and each entry's) has been released.
C19_HandlesReleasedOnReturn ==
    epc = "returned" => held = {}

\* the part that holds: each entry's id list is released before the next
\* entry is fetched, whether or not its names resolved
C19_ItemHandlesReleased ==
    epc \in {"next", "free_folder", "returned"} =>
        \A h \in held : h.kind # "item"

=============================================================================
